---------------------------- MODULE Spec2Model ----------------------------
(***************************************************************************)
(* A model of rust-torrent-client: the shared TorrentState and its         *)
(* bitfield (src/src/queue.rs), the scheduler create_queue and the peer    *)
(* session tasks it spawns (src/src/queue.rs), the wire / tracker codecs   *)
(* (src/src/connect_tracker.rs) and the metainfo decoder                   *)
(* (src/src/parse_torrent.rs).                                             *)
(*                                                                         *)
(* Text is modelled as a sequence of character codes (ASCII), a byte       *)
(* vector as a sequence of numbers 0..255, Option<T> as a sequence of      *)
(* length 0 (None) or 1 (Some).                                            *)
(***************************************************************************)
EXTENDS Integers, Sequences, FiniteSets, TLC

VARIABLES
    \* TorrentState (queue.rs:37-41)
    info,            \* TorrentInfo.info_data: [length, piece_length]
    bitfield,        \* Vec<u8>
    peers,           \* Vec<PeerState>
    \* a caller of the TorrentState methods
    call,            \* the last method call: [op, arg, ret_bool, ret_opt, before]
    ops,             \* number of method calls made so far
    \* create_queue and its session tasks (queue.rs:142-164)
    overflow_checks, \* build profile: TRUE = debug (checked usize arithmetic)
    sched,           \* create_queue: [pc, connections, last, wrapped, i]
    sessions,        \* the spawned tasks, in spawn order: [pc, guard, peer_index, piece_index, failure]
    poisoned,        \* the Mutex<TorrentState> was poisoned by a panic under the lock
    lock,            \* the Mutex<TorrentState>: 0 = free, s = locked by session s
    \* Message (connect_tracker.rs:103-156)
    msg,             \* a Message: [length, id, payload]
    msg_wire,        \* Option: the bytes msg.byte_serialize() returned
    msg_read,        \* Option: the outcome of Message::read(msg_wire)
    \* Handshake (connect_tracker.rs:158-222)
    hs,              \* a Handshake: [pstrlen, pstr, reserved_bytes, info_hash, peer_id]
    hs_wire,         \* Option: the String hs.serialize() returned
    hs_read,         \* Option: the outcome of Handshake::deserialize(hs_wire)
    \* the announce request (connect_tracker.rs:31-53, 243-264)
    request,         \* an AnnounceURL with the info hash passed beside it
    announce,        \* Option: the query and the url get_data built
    \* MessageId (connect_tracker.rs:55-101)
    id_input,        \* a wire byte or a MessageId: [tag, v]
    id_mid,          \* Option: the first conversion of id_input
    id_out,          \* Option: id_mid converted back
    \* the metainfo decoder (parse_torrent.rs)
    meta_input,      \* the description a metainfo file was written from
    meta_bytes,      \* the bytes of the file
    meta_out         \* Option: the outcome of TorrentInfo::from_bencode(meta_bytes)

stateVars == <<info, bitfield, peers>>
callVars  == <<call, ops>>
schedVars == <<overflow_checks, sched, sessions, poisoned, lock>>

msgVars   == <<msg, msg_wire, msg_read>>
hsVars    == <<hs, hs_wire, hs_read>>
annVars   == <<request, announce>>
idVars    == <<id_input, id_mid, id_out>>
metaVars  == <<meta_input, meta_bytes, meta_out>>
codecVars == <<msgVars, hsVars, annVars, idVars, metaVars>>

vars == <<stateVars, callVars, schedVars, codecVars>>

---------------------------------------------------------------------------
\* Bounds of the model.

\* info_data.length ranges over 0..MaxLength
MaxLength == 24
\* info_data.piece_length ranges over 1..MaxPieceLength
MaxPieceLength == 2
\* the peer list holds 0..MaxPeers peers
MaxPeers == 3
\* a caller makes at most MaxOps method calls on a TorrentState
MaxOps == 3
\* tasks spawned by a create_queue loop whose bound wrapped around to usize::MAX
MaxSpawn == 3
\* piece indices 0..MaxMsgPiece in the have / request / piece / cancel messages
MaxMsgPiece == 3
\* info hashes are drawn with a step in 0..MaxHashStep and a base in 0..MaxHashBase
MaxHashStep == 3
MaxHashBase == 4
\* the announced left ranges over 0..MaxLeft
MaxLeft == 2
---------------------------------------------------------------------------
\* Generic helpers.

None == <<>>
Some(v) == <<v>>

RECURSIVE Pow2(_)
Pow2(n) == IF n = 0 THEN 1 ELSE 2 * Pow2(n - 1)

\* (v >> shift) & 0x1 on a u8
ShiftRightAnd1(v, shift) == (v \div Pow2(shift)) % 2

\* the values a Rust range a..b iterates over, in order
Range(a, b) == IF a < b THEN [k \in 1..(b - a) |-> a + k - 1] ELSE <<>>

Min(a, b) == IF a < b THEN a ELSE b

---------------------------------------------------------------------------
\* TorrentState (queue.rs)

\* PeerState as built by the closure in TorrentState::new
NewPeerState(p) ==
    [ is_interested     |-> FALSE,
      is_choked         |-> FALSE,
      client_choked     |-> FALSE,
      client_interested |-> TRUE,
      peer_info         |-> p ]

\* let bitfield_len = (length / piece_length / 8) as usize
bitfield_len(inf) == (inf.length \div inf.piece_length) \div 8

\* TorrentState::new: the bitfield, bitfield_len zero bytes
NewBitfield(inf) == [k \in 1..bitfield_len(inf) |-> 0]

\* TorrentState::new: the peer table, one PeerState per peer of the list
NewPeers(peer_list) == [k \in 1..Len(peer_list) |-> NewPeerState(peer_list[k])]

\* a PeerList of n peers (Peer {ip, port}); the ip is abstracted to the index
PeerListOf(n) == [k \in 1..n |-> [ip |-> k, port |-> 6880 + k]]

check_piece(bf, index) ==
    LET byte_index == index \div 8
        shift      == 7 - (index % 8)
    IN  IF byte_index + 1 \in DOMAIN bf
        THEN ShiftRightAnd1(bf[byte_index + 1], shift) # 0
        ELSE FALSE

\* *v | (0x1 << shift)
ByteOr(v, shift) == IF ShiftRightAnd1(v, shift) = 1 THEN v ELSE v + Pow2(shift)

\* *v & !(0x1 << shift)
ByteAndNot(v, shift) == IF ShiftRightAnd1(v, shift) = 1 THEN v - Pow2(shift) ELSE v

set_bitfield_on(bf, index) ==
    LET byte_index == index \div 8
        shift      == 7 - (index % 8)
    IN  IF byte_index + 1 \in DOMAIN bf
        THEN [bf EXCEPT ![byte_index + 1] = ByteOr(@, shift)]
        ELSE bf

set_bitfield_off(bf, index) ==
    LET byte_index == index \div 8
        shift      == 7 - (index % 8)
    IN  IF byte_index + 1 \in DOMAIN bf
        THEN [bf EXCEPT ![byte_index + 1] = ByteAndNot(@, shift)]
        ELSE bf

\* a picker whose inner loop walks the offsets 7, 6, .., 0
PickerOffsetsDescending == <<7, 6, 5, 4, 3, 2, 1, 0>>

\* the offsets the inner loop of get_next_required_piece visits: for offset in 7..0
PickerOffsets == Range(7, 0)

\* the first offset of PickerOffsets, from position k on, whose bit of byte is 0
RECURSIVE FirstZeroOffset(_, _)
FirstZeroOffset(byte, k) ==
    IF k > Len(PickerOffsets) THEN None
    ELSE IF ShiftRightAnd1(byte, PickerOffsets[k]) = 0 THEN Some(PickerOffsets[k])
    ELSE FirstZeroOffset(byte, k + 1)

\* get_next_required_piece, scanning the bytes from (0-based) index i on
RECURSIVE NextRequiredFrom(_, _)
NextRequiredFrom(bf, i) ==
    IF i >= Len(bf) THEN None
    ELSE IF bf[i + 1] = 255 THEN NextRequiredFrom(bf, i + 1)
    ELSE LET off == FirstZeroOffset(bf[i + 1], 1)
         IN  IF off # None THEN Some((i * 8) + (7 - off[1]))
             ELSE NextRequiredFrom(bf, i + 1)

get_next_required_piece(bf) == NextRequiredFrom(bf, 0)

---------------------------------------------------------------------------
\* Text and byte helpers.

RECURSIVE Concat(_)
\* the concatenation of a sequence of sequences
Concat(ss) == IF ss = <<>> THEN <<>> ELSE Head(ss) \o Concat(Tail(ss))

\* s[from..], 0-based as in Rust
DropFirst(s, n) == SubSeq(s, n + 1, Len(s))

\* u32::to_be_bytes
to_be_bytes(n) ==
    << (n \div 16777216) % 256, (n \div 65536) % 256, (n \div 256) % 256, n % 256 >>

\* u32::from_be_bytes
from_be_bytes(b) == ((b[1] * 256 + b[2]) * 256 + b[3]) * 256 + b[4]

---------------------------------------------------------------------------
\* MessageId and Message (connect_tracker.rs:55-156)

MessageIds == {"KeepAlive", "Choke", "Unchoke", "Interested", "NotInterested",
               "Have", "Bitfield", "Request", "Piece", "Cancel", "Port"}

\* MessageId::get_id
get_id(id) ==
    CASE id = 0  -> "Choke"
      [] id = 1  -> "Unchoke"
      [] id = 2  -> "Interested"
      [] id = 3  -> "Interested"
      [] id = 5  -> "Have"
      [] id = 6  -> "Bitfield"
      [] id = 7  -> "Request"
      [] id = 8  -> "Piece"
      [] id = 9  -> "Cancel"
      [] id = 10 -> "Port"
      [] OTHER   -> "KeepAlive"

\* MessageId::convert; the second Interested arm (=> 3) is unreachable, so
\* NotInterested and KeepAlive fall to the wildcard arm
convert(id) ==
    CASE id = "Choke"      -> 0
      [] id = "Unchoke"    -> 1
      [] id = "Interested" -> 2
      [] id = "Have"       -> 5
      [] id = "Bitfield"   -> 6
      [] id = "Request"    -> 7
      [] id = "Piece"      -> 8
      [] id = "Cancel"     -> 9
      [] id = "Port"       -> 10
      [] OTHER             -> 0

\* the outcome of a call that can panic
Ok(v) == [ok |-> TRUE, value |-> v]
Panic == [ok |-> FALSE, value |-> "panic"]

\* Message::byte_serialize
byte_serialize(m) ==
    IF m.id = None THEN <<0, 0>>
    ELSE LET ret == to_be_bytes(m.length) \o <<convert(m.id[1])>>
         IN  IF m.payload = None THEN ret ELSE ret \o m.payload[1]

\* Message::read
read(message) ==
    IF Len(message) < 4 THEN Panic                 \* message[0..4]
    ELSE LET length == from_be_bytes(SubSeq(message, 1, 4)) IN
    IF Len(message) < 6 THEN Panic                 \* message[5]
    ELSE LET id == message[6] IN
    IF Len(message) < length + 5 THEN Panic        \* the explicit panic!
    ELSE IF length < 5 THEN Panic                  \* message[5..length]
    ELSE Ok([ length  |-> length,
              id      |-> Some(get_id(id)),
              payload |-> Some(SubSeq(message, 6, length)) ])

---------------------------------------------------------------------------
\* Handshake (connect_tracker.rs:158-222)

\* "0x13"
Str0x13 == <<48, 120, 49, 51>>
\* "BitTorrent protocol"
StrProtocol ==
    <<66, 105, 116, 84, 111, 114, 114, 101, 110, 116, 32, 112, 114, 111, 116, 111,
      99, 111, 108>>
\* "0x00\0x00\0x00\0x00\0x00\0x00\0x00\0x00"
StrReserved ==
    <<48, 120, 48, 48, 92, 48, 120, 48, 48, 92, 48, 120, 48, 48, 92, 48, 120, 48,
      48, 92, 48, 120, 48, 48, 92, 48, 120, 48, 48, 92, 48, 120, 48, 48, 92, 48,
      120, 48, 48>>
\* the separator of deserialize:
\* "x13BitTorrent protocol\0x00\0x00\0x00\0x00\0x00\0x00\0x00\0x00"
StrSplitPattern ==
    <<120, 49, 51, 66, 105, 116, 84, 111, 114, 114, 101, 110, 116, 32, 112, 114,
      111, 116, 111, 99, 111, 108, 92, 48, 120, 48, 48, 92, 48, 120, 48, 48, 92,
      48, 120, 48, 48, 92, 48, 120, 48, 48, 92, 48, 120, 48, 48, 92, 48, 120, 48,
      48, 92, 48, 120, 48, 48, 92, 48, 120, 48, 48>>
\* '\'
Backslash == 92

\* the length of a peer id: id_hash.len() - 20
PeerIdLen == 20

\* Handshake::new
NewHandshake(info_hash, peer_id) ==
    [ pstrlen        |-> Str0x13,
      pstr           |-> StrProtocol,
      reserved_bytes |-> StrReserved,
      info_hash      |-> info_hash,
      peer_id        |-> peer_id ]

\* one lower-case hexadecimal digit
LowerHexDigit(d) == IF d < 10 THEN 48 + d ELSE 87 + d

\* the hexadecimal digits of n, without leading zeros ("0" for 0)
RECURSIVE LowerHex(_)
LowerHex(n) ==
    IF n < 16 THEN <<LowerHexDigit(n)>>
    ELSE LowerHex(n \div 16) \o <<LowerHexDigit(n % 16)>>

\* format!("{:#x}", b): the prefix and the digits, no padding
FormatHexUnpadded(b) == <<48, 120>> \o LowerHex(b)

\* format!("{:#04x}", b): "0x" and the digits, zero-padded to 4 characters in all
FormatHex04(b) ==
    LET digits == LowerHex(b)
    IN  <<48, 120>> \o [k \in 1..(2 - Min(2, Len(digits))) |-> 48] \o digits

\* Handshake::serialize
serialize(h) ==
    LET hash_string ==
            Concat([k \in 1..Len(h.info_hash) |->
                        <<Backslash>> \o FormatHex04(h.info_hash[k])])
    IN  <<Backslash>> \o h.pstrlen \o h.pstr \o <<Backslash>> \o h.reserved_bytes
            \o hash_string \o h.peer_id

\* whether pat occurs in s at (1-based) position k
MatchesAt(s, pat, k) ==
    /\ k + Len(pat) - 1 <= Len(s)
    /\ \A j \in 1..Len(pat) : s[k + j - 1] = pat[j]

\* the first position >= k where pat occurs in s, 0 when there is none
RECURSIVE Find(_, _, _)
Find(s, pat, k) ==
    IF k + Len(pat) - 1 > Len(s) THEN 0
    ELSE IF MatchesAt(s, pat, k) THEN k
    ELSE Find(s, pat, k + 1)

\* str::split(pat), as the sequence of the pieces
RECURSIVE Split(_, _)
Split(s, pat) ==
    LET k == Find(s, pat, 1)
    IN  IF k = 0 THEN <<s>>
        ELSE <<SubSeq(s, 1, k - 1)>> \o Split(DropFirst(s, k + Len(pat) - 1), pat)

\* the value of a hexadecimal digit, -1 for any other character
HexDigitValue(c) ==
    IF c \in 48..57 THEN c - 48
    ELSE IF c \in 97..102 THEN c - 87
    ELSE IF c \in 65..70 THEN c - 55
    ELSE -1

\* u8::from_str_radix(&c[2..4], 16) on the two characters a, b: Some(v) or None
\* for Err; a leading '+' is accepted
from_str_radix(a, b) ==
    IF a = 43 THEN (IF HexDigitValue(b) >= 0 THEN Some(HexDigitValue(b)) ELSE None)
    ELSE IF HexDigitValue(a) >= 0 /\ HexDigitValue(b) >= 0
         THEN Some(16 * HexDigitValue(a) + HexDigitValue(b))
         ELSE None

\* the loop of deserialize over the pieces between backslashes
RECURSIVE ParseHash(_)
ParseHash(pieces) ==
    IF pieces = <<>> THEN <<>>
    ELSE LET c == Head(pieces)
         IN  IF Len(c) < 4 THEN ParseHash(Tail(pieces))
             ELSE from_str_radix(c[3], c[4]) \o ParseHash(Tail(pieces))

\* Handshake::deserialize
deserialize(message) ==
    LET parts == Split(message, StrSplitPattern) IN
    IF Len(parts) < 2 THEN Panic                    \* .nth(1).expect(..)
    ELSE LET id_hash == parts[2] IN
    IF Len(id_hash) < PeerIdLen THEN Panic          \* id_hash.len() - 20
    ELSE LET hash == ParseHash(Split(SubSeq(id_hash, 1, Len(id_hash) - PeerIdLen),
                                     <<Backslash>>))
             peer_id == DropFirst(id_hash, Len(id_hash) - PeerIdLen)
         IN  Ok(NewHandshake(hash, peer_id))

---------------------------------------------------------------------------
\* The announce request (connect_tracker.rs:13-53, 224-264)

LISTENING_PORT == 8000

\* impl Display for Event
EventString(e) ==
    CASE e = "Started"   -> <<115, 116, 97, 114, 116, 101, 100>>
      [] e = "Stopped"   -> <<115, 116, 111, 112, 112, 101, 100>>
      [] e = "Completed" -> <<99, 111, 109, 112, 108, 101, 116, 101, 100>>

\* AnnounceURL::new
NewAnnounceURL(url, peer_id, left) ==
    [ url        |-> url,
      peer_id    |-> peer_id,
      port       |-> LISTENING_PORT,
      uploaded   |-> 0,
      downloaded |-> 0,
      left       |-> left,
      event      |-> "Started" ]

\* the decimal digits of n >= 0
RECURSIVE Decimal(_)
Decimal(n) == IF n < 10 THEN <<48 + n>> ELSE Decimal(n \div 10) \o <<48 + (n % 10)>>

\* i32::to_string
to_string(n) == IF n < 0 THEN <<45>> \o Decimal(-n) ELSE Decimal(n)

UpperHexDigit(d) == IF d < 10 THEN 48 + d ELSE 55 + d

\* '%' and two upper-case hexadecimal digits
PercentByte(b) == <<37, UpperHexDigit(b \div 16), UpperHexDigit(b % 16)>>

\* the bytes url::form_urlencoded::byte_serialize leaves as they are:
\* '*', '-', '.', '_', 0-9, A-Z, a-z
FormUnchanged(b) ==
    b \in {42, 45, 46, 95} \cup (48..57) \cup (65..90) \cup (97..122)

\* url::form_urlencoded::byte_serialize(..).collect::<String>(): a space is
\* written '+', every other byte outside FormUnchanged is written %XX
form_byte_serialize(bytes) ==
    Concat([k \in 1..Len(bytes) |->
                IF FormUnchanged(bytes[k]) THEN <<bytes[k]>>
                ELSE IF bytes[k] = 32 THEN <<43>>
                ELSE PercentByte(bytes[k])])

\* parse_query, over the pairs from position k on
RECURSIVE ParseQueryFrom(_, _, _)
ParseQueryFrom(params, k, query_string) ==
    IF k > Len(params) THEN query_string
    ELSE LET key == params[k][1]
             v   == params[k][2]
         IN  ParseQueryFrom(params, k + 1,
                 IF Len(query_string) = 0
                 THEN <<63>> \o key \o <<61>> \o v
                 ELSE query_string \o <<38>> \o key \o <<61>> \o v)

parse_query(params) == ParseQueryFrom(params, 1, <<>>)

KeyInfoHash   == <<105, 110, 102, 111, 95, 104, 97, 115, 104>>
KeyPeerId     == <<112, 101, 101, 114, 95, 105, 100>>
KeyPort       == <<112, 111, 114, 116>>
KeyUploaded   == <<117, 112, 108, 111, 97, 100, 101, 100>>
KeyDownloaded == <<100, 111, 119, 110, 108, 111, 97, 100, 101, 100>>
KeyLeft       == <<108, 101, 102, 116>>
KeyEvent      == <<101, 118, 101, 110, 116>>

\* the pairs get_data hands to parse_query
GetDataParams(req, hash) ==
    << <<KeyInfoHash, form_byte_serialize(hash)>>,
       <<KeyPeerId, req.peer_id>>,
       <<KeyUploaded, to_string(req.uploaded)>>,
       <<KeyDownloaded, to_string(req.downloaded)>>,
       <<KeyLeft, to_string(req.left)>>,
       <<KeyEvent, EventString(req.event)>> >>

\* get_data, up to the request it sends: the query and format!("{url}{query}")
get_data(req, hash) ==
    LET query == parse_query(GetDataParams(req, hash))
    IN  [query |-> query, url |-> req.url \o query]

---------------------------------------------------------------------------
\* Initial values of the variable groups.

InfoInputs == [length : 0..MaxLength, piece_length : 1..MaxPieceLength]

NoCall == [op |-> "none", arg |-> 0, ret_bool |-> FALSE, ret_opt |-> None,
           before |-> <<>>]

\* the state after TorrentState::new(info, &peer_list)
InitState ==
    /\ info \in InfoInputs
    /\ bitfield = NewBitfield(info)
    /\ \E n \in 0..MaxPeers : peers = NewPeers(PeerListOf(n))

IdleState ==
    /\ info = [length |-> 0, piece_length |-> 1]
    /\ bitfield = <<>>
    /\ peers = <<>>

InitCall == call = NoCall /\ ops = 0

\* Messages: keep-alive, and for each defined kind well-formed messages, their
\* length being 1 + the length of the payload
Msg(length, id, payload) == [length |-> length, id |-> id, payload |-> payload]

KeepAliveMsg == Msg(0, None, None)

WithPayload(id, payload) == Msg(1 + Len(payload), Some(id), Some(payload))

BlockOffsets == {0, 16384}
Blocks == {<<>>, <<7>>, <<1, 2, 3>>}
RemoteBitfields == {<<128>>, <<255, 1>>, <<0, 0, 2>>}

MessageInputs ==
    {KeepAliveMsg}
    \cup {Msg(1, Some(id), None) : id \in {"Choke", "Unchoke", "Interested", "NotInterested"}}
    \cup {WithPayload(id, <<>>) : id \in {"Choke", "Unchoke", "Interested", "NotInterested"}}
    \cup {WithPayload("Have", to_be_bytes(i)) : i \in 0..MaxMsgPiece}
    \cup {WithPayload("Bitfield", b) : b \in RemoteBitfields}
    \cup {WithPayload(id, to_be_bytes(i) \o to_be_bytes(begin) \o to_be_bytes(16384)) :
             id \in {"Request", "Cancel"}, i \in 0..MaxMsgPiece, begin \in BlockOffsets}
    \cup {WithPayload("Piece", to_be_bytes(i) \o to_be_bytes(begin) \o block) :
             i \in 0..MaxMsgPiece, begin \in BlockOffsets, block \in Blocks}
    \cup {WithPayload("Port", <<26, 225>>)}

\* the info hash of tests::message_serialize
TestInfoHash ==
    <<255, 12, 45, 0, 1, 2, 3, 10, 9, 21, 78, 123, 231, 34, 122, 99, 56, 100, 255, 34>>

\* a SHA-1 digest is 20 bytes
InfoHashLen == 20

InfoHashInputs ==
    {TestInfoHash}
    \cup {[k \in 1..InfoHashLen |-> (step * 37 * k + base * 51) % 256] :
             step \in 0..MaxHashStep, base \in 0..MaxHashBase}

\* "-TR2940-k8hj0wgej6ch", the peer id of the tests
TestPeerId ==
    <<45, 84, 82, 50, 57, 52, 48, 45, 107, 56, 104, 106, 48, 119, 103, 101, 106, 54,
      99, 104>>
\* "\x13B\0x4f&port=1 ~*": 20 characters with separators of both codecs in them
OddPeerId ==
    <<92, 120, 49, 51, 66, 92, 48, 120, 52, 102, 38, 112, 111, 114, 116, 61, 49, 32,
      126, 42>>

PeerIdInputs == {TestPeerId, OddPeerId}

\* "http://t/announce"
TrackerUrl ==
    <<104, 116, 116, 112, 58, 47, 47, 116, 47, 97, 110, 110, 111, 117, 110, 99, 101>>

IdleMsg == msg = KeepAliveMsg /\ msg_wire = None /\ msg_read = None

IdleHs ==
    /\ hs = NewHandshake(TestInfoHash, TestPeerId)
    /\ hs_wire = None
    /\ hs_read = None

IdleAnn ==
    /\ request = [announce_url |-> NewAnnounceURL(TrackerUrl, TestPeerId, 0),
                  hash |-> TestInfoHash]
    /\ announce = None

IdleId == id_input = [tag |-> "byte", v |-> 0] /\ id_mid = None /\ id_out = None

IdleMeta == meta_input = None /\ meta_bytes = <<>> /\ meta_out = None

IdleCodec == IdleMsg /\ IdleHs /\ IdleAnn /\ IdleId /\ IdleMeta

InitSched ==
    /\ overflow_checks \in BOOLEAN
    /\ sched = [pc |-> "start", connections |-> 0, last |-> 0, wrapped |-> FALSE, i |-> 0]
    /\ sessions = <<>>
    /\ poisoned = FALSE
    /\ lock = 0

IdleSched ==
    /\ overflow_checks = TRUE
    /\ sched = [pc |-> "start", connections |-> 0, last |-> 0, wrapped |-> FALSE, i |-> 0]
    /\ sessions = <<>>
    /\ poisoned = FALSE
    /\ lock = 0

---------------------------------------------------------------------------
\* SpecState: a caller drives the methods of one TorrentState.

\* the indices the caller passes: every bit of the first byte, the bits on both
\* sides of the later byte boundaries, and MaxLength, which is in no bitfield
Indices == (0..9) \cup {15, 16, 22, 23, MaxLength}

CheckPiece(index) ==
    /\ ops < MaxOps
    /\ call' = [op |-> "check_piece", arg |-> index,
                ret_bool |-> check_piece(bitfield, index), ret_opt |-> None,
                before |-> bitfield]
    /\ ops' = ops + 1
    /\ UNCHANGED <<stateVars, schedVars, codecVars>>

SetBitfieldOn(index) ==
    /\ ops < MaxOps
    /\ bitfield' = set_bitfield_on(bitfield, index)
    /\ call' = [op |-> "set_bitfield_on", arg |-> index,
                ret_bool |-> FALSE, ret_opt |-> None,
                before |-> bitfield]
    /\ ops' = ops + 1
    /\ UNCHANGED <<info, peers, schedVars, codecVars>>

SetBitfieldOff(index) ==
    /\ ops < MaxOps
    /\ bitfield' = set_bitfield_off(bitfield, index)
    /\ call' = [op |-> "set_bitfield_off", arg |-> index,
                ret_bool |-> FALSE, ret_opt |-> None,
                before |-> bitfield]
    /\ ops' = ops + 1
    /\ UNCHANGED <<info, peers, schedVars, codecVars>>

GetNextRequiredPiece ==
    /\ ops < MaxOps
    /\ call' = [op |-> "get_next_required_piece", arg |-> 0,
                ret_bool |-> FALSE, ret_opt |-> get_next_required_piece(bitfield),
                before |-> bitfield]
    /\ ops' = ops + 1
    /\ UNCHANGED <<stateVars, schedVars, codecVars>>

\* the state after TorrentState::new(info, &peerlist) with an empty peer list, as in
\* tests::bitfield_set
InitS ==
    /\ info \in InfoInputs
    /\ bitfield = NewBitfield(info)
    /\ peers = NewPeers(PeerListOf(0))
    /\ InitCall
    /\ IdleSched
    /\ IdleCodec

NextS ==
    \/ \E index \in Indices : CheckPiece(index)
    \/ \E index \in Indices : SetBitfieldOn(index)
    \/ \E index \in Indices : SetBitfieldOff(index)
    \/ GetNextRequiredPiece

SpecState == InitS /\ [][NextS]_vars

---------------------------------------------------------------------------
\* Claims about TorrentState, checked under SpecState.

\* num_pieces = ceil(total_length / piece_length)
NumPieces(inf) == (inf.length + inf.piece_length - 1) \div inf.piece_length

\* the padding bits: the bits of the bitfield at indices >= num_pieces
PaddingBitsZero ==
    \A i \in 0..(8 * Len(bitfield) - 1) :
        i >= NumPieces(info) => ~check_piece(bitfield, i)

\* C1: for every piece index i < num_pieces, after set_bitfield_on(i) the piece
\* is reported held by check_piece(i); and after any calls of set_bitfield_on /
\* set_bitfield_off the padding bits beyond num_pieces are zero.
C1_SetThenCheck ==
    /\ (call.op = "set_bitfield_on" /\ call.arg < NumPieces(info))
           => check_piece(bitfield, call.arg)
    /\ PaddingBitsZero

\* the pieces a peer holding every piece can serve: not held locally. (The code
\* keeps no assignment map and takes no peer bitfield.)
EligiblePieces == {i \in 0..(NumPieces(info) - 1) : ~check_piece(bitfield, i)}

LowestOf(S) == CHOOSE i \in S : \A j \in S : i <= j

\* C2: whenever at least one piece is eligible the picker returns Some(i) with i
\* the lowest eligible index; it returns None only when no piece is eligible.
C2_PickerLowestEligible ==
    call.op = "get_next_required_piece" =>
        IF EligiblePieces # {}
        THEN call.ret_opt = Some(LowestOf(EligiblePieces))
        ELSE call.ret_opt = None

\* bit k (0 = least significant) of byte number b (0-based) of the bitfield bf
BitOf(bf, b, k) == (bf[b + 1] \div Pow2(k)) % 2

\* the effect of set_bitfield_on(i) on the bitfield old, giving the bitfield new:
\* bit (7 - i % 8) of byte i / 8 is set, every other bit is unchanged, and
\* check_piece(j) is true exactly for j = i and for the indices set in old
SetBitFrame(old, new, i) ==
    /\ Len(new) = Len(old)
    /\ i \div 8 < Len(new)
    /\ BitOf(new, i \div 8, 7 - (i % 8)) = 1
    /\ \A b \in 0..(Len(old) - 1), k \in 0..7 :
           (b # i \div 8 \/ k # 7 - (i % 8))
               => BitOf(new, b, k) = BitOf(old, b, k)
    /\ \A j \in 0..(8 * Len(old) + 7) :
           check_piece(new, j) <=> (j = i \/ check_piece(old, j))

\* C13: for every piece index i < num_pieces, set_bitfield_on(i) sets bit
\* (7 - i % 8) of byte i / 8 and leaves every other bit of the bitfield
\* unchanged, so that afterwards check_piece(j) is true exactly for j = i and
\* for the indices that were set before.
C13_SetBitFrame ==
    (call.op = "set_bitfield_on" /\ call.arg < NumPieces(info))
        => SetBitFrame(call.before, bitfield, call.arg)

\* the same for the indices whose byte i / 8 the bitfield has
SetBitFrameInRange ==
    (call.op = "set_bitfield_on" /\ call.arg \div 8 < Len(call.before))
        => SetBitFrame(call.before, bitfield, call.arg)

\* the scenario of tests::bitfield_set: on a 3-byte bitfield, set(0), set(15),
\* set(22) have given the bytes 0x80, 0x01, 0x02, and test(23) is false
BitfieldSetTest ==
    /\ call.op = "set_bitfield_on"
    /\ call.arg = 22
    /\ bitfield = <<128, 1, 2>>
    /\ check_piece(bitfield, 0) /\ check_piece(bitfield, 15) /\ check_piece(bitfield, 22)
    /\ ~check_piece(bitfield, 23)

---------------------------------------------------------------------------
\* Spec: create_queue and the session tasks it spawns (queue.rs:142-164).

\* if total_peers < 100 { total_peers } else { 100 }
MaxConnections == 100

\* i < last, where last is connections - 1 in usize arithmetic: a wrapped bound is
\* usize::MAX (2^64 - 1), above every i the model reaches
BelowLast(i) == IF sched.wrapped THEN TRUE ELSE i < sched.last

NewSession(i) ==
    [pc |-> "get_handshake", guard |-> FALSE, peer_index |-> i, piece_index |-> None,
     failure |-> None]

\* let total_peers = state.peers.len(); let connections = ...; connections - 1
\* underflows for an empty peer list: a panic with overflow checks (debug), a
\* wrap to usize::MAX without them (release).
CreateQueueStart ==
    /\ sched.pc = "start"
    /\ LET total_peers == Len(peers)
           connections == IF total_peers < MaxConnections THEN total_peers
                          ELSE MaxConnections
       IN  IF connections = 0 /\ overflow_checks
           THEN sched' = [sched EXCEPT !.pc = "panicked", !.connections = connections]
           ELSE sched' = [pc |-> "loop", connections |-> connections,
                          last |-> IF connections = 0 THEN 0 ELSE connections - 1,
                          wrapped |-> (connections = 0),
                          i |-> 0]
    /\ UNCHANGED <<stateVars, callVars, codecVars, overflow_checks, sessions, poisoned, lock>>

\* one iteration of for i in 0..(connections - 1): tokio::spawn(...)
Spawn ==
    /\ sched.pc = "loop"
    /\ BelowLast(sched.i)
    /\ sched.wrapped => Len(sessions) < MaxSpawn
    /\ sessions' = Append(sessions, NewSession(sched.i))
    /\ sched' = [sched EXCEPT !.i = @ + 1]
    /\ UNCHANGED <<stateVars, callVars, codecVars, overflow_checks, poisoned, lock>>

\* the loop is over: create_queue returns
CreateQueueReturn ==
    /\ sched.pc = "loop"
    /\ ~BelowLast(sched.i)
    /\ sched' = [sched EXCEPT !.pc = "returned"]
    /\ UNCHANGED <<stateVars, callVars, codecVars, overflow_checks, sessions, poisoned, lock>>

SetPc(s, pc) == sessions' = [sessions EXCEPT ![s].pc = pc]

\* the methods of SharedTorrentState: each one begins with self.mutex.lock()
LockingMethods == {"get_handshake", "get_ip_port", "get_required_piece"}

\* a MutexGuard that outlives the method that took it
KeepLocked(s) == s

\* the state of the mutex when session s returns from a method: the MutexGuard
\* `lock` is a local of the method and is dropped on return
Unlock(s) == 0

\* the session leaves the method it is in: its guard is dropped
Return(s, pc) ==
    /\ sessions' = [sessions EXCEPT ![s].pc = pc, ![s].guard = FALSE]
    /\ lock' = Unlock(s)

\* self.mutex.lock().expect("Error unable to lock mutex!"): blocks while another
\* guard is alive; on a poisoned mutex lock() is an Err and expect panics
Lock(s) ==
    /\ sessions[s].pc \in LockingMethods
    /\ ~sessions[s].guard
    /\ lock = 0
    /\ IF poisoned
       THEN SetPc(s, "panicked") /\ UNCHANGED lock
       ELSE /\ sessions' = [sessions EXCEPT ![s].guard = TRUE]
            /\ lock' = s
    /\ UNCHANGED <<stateVars, callVars, codecVars, overflow_checks, sched, poisoned>>

\* shared_state.get_handshake(&shared_id, i): Handshake::new under the guard
GetHandshake(s) ==
    /\ sessions[s].pc = "get_handshake"
    /\ sessions[s].guard
    /\ Return(s, "get_ip_port")
    /\ UNCHANGED <<stateVars, callVars, codecVars, overflow_checks, sched, poisoned>>

\* shared_state.get_ip_port(i): &lock.peers[peer_index] under the guard; an index
\* out of bounds panics with the guard held: the unwinding drops the guard and
\* poisons the mutex
GetIpPort(s) ==
    /\ sessions[s].pc = "get_ip_port"
    /\ sessions[s].guard
    /\ IF sessions[s].peer_index >= Len(peers)
       THEN /\ sessions' = [sessions EXCEPT ![s].pc = "panicked", ![s].guard = FALSE]
            /\ lock' = 0
            /\ poisoned' = TRUE
       ELSE Return(s, "connect") /\ UNCHANGED poisoned
    /\ UNCHANGED <<stateVars, callVars, codecVars, overflow_checks, sched>>

\* PeerConnection::new(ip, port).await.unwrap(): an Err (connect refused) panics
\* the task, outside every method of SharedTorrentState
Connect(s) ==
    /\ sessions[s].pc = "connect"
    /\ \E ok \in BOOLEAN :
           IF ok
           THEN SetPc(s, "handshake_with_peer")
           ELSE sessions' = [sessions EXCEPT ![s].pc = "panicked",
                                 ![s].failure = Some("connect")]
    /\ UNCHANGED <<stateVars, callVars, codecVars, overflow_checks, sched, poisoned, lock>>

\* peer_connection.handshake_with_peer(&handshake).await; the Result (unwrapped
\* in main.rs:60) is dropped here: the task goes on whether it is Ok or Err
HandshakeWithPeer(s) ==
    /\ sessions[s].pc = "handshake_with_peer"
    /\ \E ok \in BOOLEAN :
           sessions' = [sessions EXCEPT ![s].pc = "get_required_piece",
                            ![s].failure = IF ok THEN None ELSE Some("handshake")]
    /\ UNCHANGED <<stateVars, callVars, codecVars, overflow_checks, sched, poisoned, lock>>

\* let piece_index = shared_state.get_required_piece(): get_next_required_piece
\* under the guard; then the task ends
GetRequiredPiece(s) ==
    /\ sessions[s].pc = "get_required_piece"
    /\ sessions[s].guard
    /\ sessions' = [sessions EXCEPT ![s].pc = "done", ![s].guard = FALSE,
                          ![s].piece_index = get_next_required_piece(bitfield)]
    /\ lock' = Unlock(s)
    /\ UNCHANGED <<stateVars, callVars, codecVars, overflow_checks, sched, poisoned>>

Init == InitState /\ InitCall /\ InitSched /\ IdleCodec

Next ==
    \/ CreateQueueStart
    \/ Spawn
    \/ CreateQueueReturn
    \/ \E s \in DOMAIN sessions : Lock(s)
    \/ \E s \in DOMAIN sessions : GetHandshake(s)
    \/ \E s \in DOMAIN sessions : GetIpPort(s)
    \/ \E s \in DOMAIN sessions : Connect(s)
    \/ \E s \in DOMAIN sessions : HandshakeWithPeer(s)
    \/ \E s \in DOMAIN sessions : GetRequiredPiece(s)

Spec == Init /\ [][Next]_vars

---------------------------------------------------------------------------
\* Claims about the scheduler and its sessions, checked under Spec.

\* the piece a session holds: the result of its get_required_piece call
Reserved(s) == sessions[s].piece_index

C4_InitialPeerFlags ==
    \A k \in DOMAIN peers :
        /\ peers[k].client_choked = TRUE
        /\ peers[k].is_choked = TRUE
        /\ peers[k].client_interested = FALSE
        /\ peers[k].is_interested = FALSE

\* C5: for a peer list of any size n, create_queue does not fail and, once it has
\* returned, has spawned exactly min(n, 100) sessions, one per peer index
\* 0 .. min(n, 100) - 1.
C5_SpawnsOnePerPeer ==
    /\ sched.pc # "panicked"
    /\ sched.pc = "returned" =>
           /\ Len(sessions) = Min(Len(peers), MaxConnections)
           /\ \A k \in DOMAIN sessions : sessions[k].peer_index = k - 1

SessionRunning(s) == sessions[s].pc \notin {"done", "panicked"}

\* every bit of a real piece is set
BitfieldFull == \A i \in 0..(NumPieces(info) - 1) : check_piece(bitfield, i)

\* the scheduler or one of its sessions has panicked
FatalError == sched.pc = "panicked" \/ \E s \in DOMAIN sessions : sessions[s].pc = "panicked"

\* C6: create_queue does not return while spawned sessions are still running
\* with pieces missing and no fatal error raised.
C6_ExitsOnlyWhenDone ==
    sched.pc = "returned" =>
        \/ BitfieldFull
        \/ FatalError
        \/ ~\E s \in DOMAIN sessions : SessionRunning(s)

\* the network operations of a session: PeerConnection::new and
\* handshake_with_peer (the read of the session is commented out)
NetworkOps == {"connect", "handshake_with_peer"}

\* session s is at self.mutex.lock() and has no guard yet
AtLock(s) == sessions[s].pc \in LockingMethods /\ ~sessions[s].guard

\* C15: in every interleaving of the spawned sessions, the session that holds
\* the TorrentState lock is not at a network operation, no session that holds
\* the lock is at an acquisition of it, and whenever the lock is held its holder
\* is inside a method of SharedTorrentState with its guard alive, which returns
\* and releases: no state is a deadlock on the lock.
C15_NoLockAcrossIO ==
    /\ lock \in {0} \cup DOMAIN sessions
    /\ \A s \in DOMAIN sessions :
           lock = s =>
               /\ sessions[s].pc \notin NetworkOps
               /\ ~AtLock(s)
               /\ sessions[s].pc \in LockingMethods /\ sessions[s].guard

\* one session holds the lock while another one is at a network operation
C15_Witness ==
    \E s, t \in DOMAIN sessions :
        /\ lock = s
        /\ sessions[s].pc = "get_required_piece"
        /\ sessions[t].pc \in NetworkOps

\* session s has met a per-peer failure: its connect was refused or its
\* handshake failed
Failed(s) == sessions[s].failure # None

\* C16: a per-peer failure in one session ends that session and only that one:
\* the session runs no further, it holds no reserved piece, the mutex of the
\* TorrentState is not poisoned and not left locked by it, no other session is
\* ended without a failure of its own, and the scheduler has not failed.
C16_FailureEndsOnlyThatSession ==
    \A s \in DOMAIN sessions :
        Failed(s) =>
            /\ sessions[s].pc = "panicked"
            /\ Reserved(s) = None
            /\ ~poisoned
            /\ lock # s
            /\ \A t \in DOMAIN sessions :
                   (t # s /\ sessions[t].pc = "panicked") => Failed(t)
            /\ sched.pc # "panicked"

---------------------------------------------------------------------------
\* SpecMessage: a Message is serialized and the bytes are read back.

ByteSerialize ==
    /\ msg_wire = None
    /\ msg_wire' = Some(byte_serialize(msg))
    /\ UNCHANGED <<stateVars, callVars, schedVars, msg, msg_read, hsVars, annVars, idVars, metaVars>>

Read ==
    /\ msg_wire # None
    /\ msg_read = None
    /\ msg_read' = Some(read(msg_wire[1]))
    /\ UNCHANGED <<stateVars, callVars, schedVars, msg, msg_wire, hsVars, annVars, idVars, metaVars>>

InitMessage ==
    /\ IdleState /\ InitCall /\ IdleSched /\ IdleHs /\ IdleAnn /\ IdleId /\ IdleMeta
    /\ msg \in MessageInputs
    /\ msg_wire = None
    /\ msg_read = None

NextMessage == ByteSerialize \/ Read

SpecMessage == InitMessage /\ [][NextMessage]_vars

\* the payload bytes of a message, none for an absent payload
PayloadBytes(m) == IF m.payload = None THEN <<>> ELSE m.payload[1]

\* C7: for every message M with a defined id and for keep-alive,
\* Message::read(M.byte_serialize()) yields a message with the same length, id
\* and payload as M.
C7_MessageRoundTrip ==
    msg_read # None =>
        /\ msg_read[1].ok
        /\ msg_read[1].value.length = msg.length
        /\ msg_read[1].value.id = msg.id
        /\ PayloadBytes(msg_read[1].value) = PayloadBytes(msg)

---------------------------------------------------------------------------
\* SpecHandshake: a Handshake is serialized and the text is deserialized.

Serialize ==
    /\ hs_wire = None
    /\ hs_wire' = Some(serialize(hs))
    /\ UNCHANGED <<stateVars, callVars, schedVars, msgVars, hs, hs_read, annVars, idVars, metaVars>>

Deserialize ==
    /\ hs_wire # None
    /\ hs_read = None
    /\ hs_read' = Some(deserialize(hs_wire[1]))
    /\ UNCHANGED <<stateVars, callVars, schedVars, msgVars, hs, hs_wire, annVars, idVars, metaVars>>

InitHandshake ==
    /\ IdleState /\ InitCall /\ IdleSched /\ IdleMsg /\ IdleAnn /\ IdleId /\ IdleMeta
    /\ \E info_hash \in InfoHashInputs, peer_id \in PeerIdInputs :
           hs = NewHandshake(info_hash, peer_id)
    /\ hs_wire = None
    /\ hs_read = None

NextHandshake == Serialize \/ Deserialize

SpecHandshake == InitHandshake /\ [][NextHandshake]_vars

\* the 68 bytes of the wire format: 0x13, "BitTorrent protocol", 8 zero bytes, the
\* info hash, the peer id
WireHandshake(h) ==
    <<19>> \o StrProtocol \o [k \in 1..8 |-> 0] \o h.info_hash \o h.peer_id

\* C8: Handshake::serialize produces exactly the 68 bytes 0x13, "BitTorrent
\* protocol", 8 zero bytes, the 20 raw info_hash bytes, the 20 peer_id bytes,
\* with no textual escaping.
C8_HandshakeIs68RawBytes ==
    hs_wire # None =>
        /\ Len(hs_wire[1]) = 68
        /\ hs_wire[1] = WireHandshake(hs)

\* C9: for every handshake H with a 20-byte info_hash and a 20-byte peer_id,
\* Handshake::deserialize(H.serialize()) returns a handshake whose info_hash and
\* peer_id equal those of H.
C9_HandshakeRoundTrip ==
    hs_read # None =>
        /\ hs_read[1].ok
        /\ hs_read[1].value.info_hash = hs.info_hash
        /\ hs_read[1].value.peer_id = hs.peer_id

\* a handshake whose info hash has a byte below 0x10 (one hexadecimal digit) and
\* one above, and whose peer id holds backslashes, has made the round trip
C9_Witness ==
    /\ hs_read # None
    /\ hs_read[1].ok
    /\ \E k \in DOMAIN hs.info_hash : hs.info_hash[k] \in 1..15
    /\ \E k \in DOMAIN hs.info_hash : hs.info_hash[k] > 15
    /\ \E k \in DOMAIN hs.peer_id : hs.peer_id[k] = Backslash
    /\ Len(hs.info_hash) = InfoHashLen
    /\ Len(hs.peer_id) = PeerIdLen

---------------------------------------------------------------------------
\* SpecAnnounce: get_data builds the announce query of a request.

GetData ==
    /\ announce = None
    /\ announce' = Some(get_data(request.announce_url, request.hash))
    /\ UNCHANGED <<stateVars, callVars, schedVars, msgVars, hsVars, request, idVars, metaVars>>

\* main.rs: the peer id is 20 alphanumeric characters, left the torrent's length;
\* get_data accepts any AnnounceURL
InitAnnounce ==
    /\ IdleState /\ InitCall /\ IdleSched /\ IdleMsg /\ IdleHs /\ IdleId /\ IdleMeta
    /\ \E info_hash \in InfoHashInputs, peer_id \in PeerIdInputs, left \in 0..MaxLeft :
           request = [announce_url |-> NewAnnounceURL(TrackerUrl, peer_id, left),
                      hash |-> info_hash]
    /\ announce = None

NextAnnounce == GetData

SpecAnnounce == InitAnnounce /\ [][NextAnnounce]_vars

\* the "k=v" pairs of a query string "?k1=v1&k2=v2...": split at '&', then each at
\* its first '='
QueryPairs(query) ==
    IF query = <<>> \/ Head(query) # 63 THEN <<>>
    ELSE LET items == Split(Tail(query), <<38>>)
         IN  [k \in 1..Len(items) |->
                 LET eq == Find(items[k], <<61>>, 1)
                 IN  IF eq = 0 THEN <<items[k], <<>>>>
                     ELSE <<SubSeq(items[k], 1, eq - 1), DropFirst(items[k], eq)>>]

\* the positions of the pairs of query whose key is key
KeyPositions(query, key) ==
    {k \in DOMAIN QueryPairs(query) : QueryPairs(query)[k][1] = key}

\* the unreserved set of RFC 3986: letters, digits, '-', '.', '_', '~'
Unreserved(b) ==
    b \in {45, 46, 95, 126} \cup (48..57) \cup (65..90) \cup (97..122)

\* text is a percent-encoding of bytes, byte by byte: every byte outside the
\* unreserved set as %XX, an unreserved byte as itself or as %XX
RECURSIVE IsPercentEncodingOf(_, _)
IsPercentEncodingOf(text, bytes) ==
    IF bytes = <<>> THEN text = <<>>
    ELSE \/ /\ Len(text) >= 3
            /\ SubSeq(text, 1, 3) = PercentByte(Head(bytes))
            /\ IsPercentEncodingOf(DropFirst(text, 3), Tail(bytes))
         \/ /\ Unreserved(Head(bytes))
            /\ Len(text) >= 1
            /\ Head(text) = Head(bytes)
            /\ IsPercentEncodingOf(Tail(text), Tail(bytes))

RecognizedKeys ==
    {KeyInfoHash, KeyPeerId, KeyPort, KeyUploaded, KeyDownloaded, KeyLeft, KeyEvent}

\* C10: the query string built by get_data is ?k1=v1&k2=v2.. holding each of
\* info_hash, peer_id, port, uploaded, downloaded, left and event exactly once,
\* with info_hash and peer_id percent-encoded byte by byte.
C10_QueryHasEveryParameter ==
    announce # None =>
        LET query == announce[1].query
            pairs == QueryPairs(query)
        IN  /\ \A key \in RecognizedKeys : Cardinality(KeyPositions(query, key)) = 1
            /\ \A k \in KeyPositions(query, KeyInfoHash) :
                   IsPercentEncodingOf(pairs[k][2], request.hash)
            /\ \A k \in KeyPositions(query, KeyPeerId) :
                   IsPercentEncodingOf(pairs[k][2], request.announce_url.peer_id)

---------------------------------------------------------------------------
\* SpecMessageId: MessageId::get_id and MessageId::convert applied to a wire
\* byte, or to a message kind, and then back.

IdInputs ==
    [tag : {"byte"}, v : 0..255] \cup [tag : {"kind"}, v : MessageIds]

GetId ==
    /\ \/ /\ id_input.tag = "byte" /\ id_mid = None
          /\ id_mid' = Some(get_id(id_input.v))
          /\ UNCHANGED id_out
       \/ /\ id_input.tag = "kind" /\ id_mid # None /\ id_out = None
          /\ id_out' = Some(get_id(id_mid[1]))
          /\ UNCHANGED id_mid
    /\ UNCHANGED <<stateVars, callVars, schedVars, msgVars, hsVars, annVars, id_input, metaVars>>

Convert ==
    /\ \/ /\ id_input.tag = "kind" /\ id_mid = None
          /\ id_mid' = Some(convert(id_input.v))
          /\ UNCHANGED id_out
       \/ /\ id_input.tag = "byte" /\ id_mid # None /\ id_out = None
          /\ id_out' = Some(convert(id_mid[1]))
          /\ UNCHANGED id_mid
    /\ UNCHANGED <<stateVars, callVars, schedVars, msgVars, hsVars, annVars, id_input, metaVars>>

InitMessageId ==
    /\ IdleState /\ InitCall /\ IdleSched /\ IdleMsg /\ IdleHs /\ IdleAnn /\ IdleMeta
    /\ id_input \in IdInputs
    /\ id_mid = None
    /\ id_out = None

NextMessageId == GetId \/ Convert

SpecMessageId == InitMessageId /\ [][NextMessageId]_vars

\* the table of the peer wire protocol: id byte -> message kind
WireKind(b) ==
    CASE b = 0 -> "Choke"
      [] b = 1 -> "Unchoke"
      [] b = 2 -> "Interested"
      [] b = 3 -> "NotInterested"
      [] b = 4 -> "Have"
      [] b = 5 -> "Bitfield"
      [] b = 6 -> "Request"
      [] b = 7 -> "Piece"
      [] b = 8 -> "Cancel"
      [] b = 9 -> "Port"

\* the kinds of the table; KeepAlive is a frame without an id byte
WireKinds == {WireKind(b) : b \in 0..9}

\* C14: get_id maps every byte b of 0..9 to the kind of the table and convert
\* maps that kind back to b; convert maps every kind of the table to its byte
\* and get_id maps that byte back to the kind (so interested and not-interested
\* stay distinct); and get_id maps every byte outside 0..9 to no message kind.
C14_IdTable ==
    /\ (id_input.tag = "byte" /\ id_input.v \in 0..9 /\ id_mid # None)
           => id_mid[1] = WireKind(id_input.v)
    /\ (id_input.tag = "byte" /\ id_input.v \in 0..9 /\ id_out # None)
           => id_out[1] = id_input.v
    /\ (id_input.tag = "byte" /\ id_input.v \notin 0..9 /\ id_mid # None)
           => id_mid[1] \notin MessageIds
    /\ (id_input.tag = "kind" /\ id_input.v \in WireKinds /\ id_mid # None)
           => (id_mid[1] \in 0..9 /\ id_input.v = WireKind(id_mid[1]))
    /\ (id_input.tag = "kind" /\ id_input.v \in WireKinds /\ id_out # None)
           => id_out[1] = id_input.v

---------------------------------------------------------------------------
\* The metainfo decoder (parse_torrent.rs) over the bytes of a file. The bencode
\* tokens are read as bendy's Decoder reads them: i<digits>e, <len>:<bytes>,
\* l..e, d..e.

\* b"announce"
KeyAnnounce == <<97, 110, 110, 111, 117, 110, 99, 101>>
\* b"comment"
KeyComment == <<99, 111, 109, 109, 101, 110, 116>>
\* b"creation date"
KeyCreationDate == <<99, 114, 101, 97, 116, 105, 111, 110, 32, 100, 97, 116, 101>>
\* b"created by"
KeyCreatedBy == <<99, 114, 101, 97, 116, 101, 100, 32, 98, 121>>
\* b"url-list"
KeyUrlList == <<117, 114, 108, 45, 108, 105, 115, 116>>
\* b"info"
KeyInfo == <<105, 110, 102, 111>>
\* b"pieces"
KeyPieces == <<112, 105, 101, 99, 101, 115>>
\* b"piece length"
KeyPieceLength == <<112, 105, 101, 99, 101, 32, 108, 101, 110, 103, 116, 104>>
\* b"length"
KeyLength == <<108, 101, 110, 103, 116, 104>>
\* b"name"
KeyName == <<110, 97, 109, 101>>

Err == [ok |-> FALSE, value |-> "error"]

IsDigit(c) == c \in 48..57

RECURSIVE DigitsEnd(_, _)
\* the first position at or after pos that holds no digit
DigitsEnd(B, pos) ==
    IF pos <= Len(B) /\ IsDigit(B[pos]) THEN DigitsEnd(B, pos + 1) ELSE pos

RECURSIVE NatValue(_, _, _)
\* the number written by the digits B[from .. to - 1]
NatValue(B, from, to) ==
    IF from >= to THEN 0 ELSE 10 * NatValue(B, from, to - 1) + (B[to - 1] - 48)

RECURSIVE ValueEnd(_, _)
RECURSIVE ItemsEnd(_, _, _)
\* the position of the last byte of the object that starts at pos; 0 when the
\* bytes from pos are not a complete object
ValueEnd(B, pos) ==
    IF pos > Len(B) THEN 0
    ELSE IF B[pos] = 105                                     \* 'i'
    THEN LET s == IF pos + 1 <= Len(B) /\ B[pos + 1] = 45 THEN pos + 2 ELSE pos + 1
             e == DigitsEnd(B, s)
         IN  IF e > s /\ e <= Len(B) /\ B[e] = 101 THEN e ELSE 0
    ELSE IF IsDigit(B[pos])
    THEN LET c == DigitsEnd(B, pos)
             n == NatValue(B, pos, c)
         IN  IF c <= Len(B) /\ B[c] = 58 /\ c + n <= Len(B) THEN c + n ELSE 0
    ELSE IF B[pos] = 108 THEN ItemsEnd(B, pos + 1, FALSE)     \* 'l'
    ELSE IF B[pos] = 100 THEN ItemsEnd(B, pos + 1, TRUE)      \* 'd'
    ELSE 0

\* the position of the 'e' that closes the list or dictionary whose next item
\* starts at pos; 0 when it is not closed or an item is malformed
ItemsEnd(B, pos, dict) ==
    IF pos > Len(B) THEN 0
    ELSE IF B[pos] = 101 THEN pos
    ELSE IF dict
    THEN LET k == IF IsDigit(B[pos]) THEN ValueEnd(B, pos) ELSE 0
             v == IF k = 0 THEN 0 ELSE ValueEnd(B, k + 1)
         IN  IF v = 0 THEN 0 ELSE ItemsEnd(B, v + 1, dict)
    ELSE LET v == ValueEnd(B, pos)
         IN  IF v = 0 THEN 0 ELSE ItemsEnd(B, v + 1, dict)

\* Object::bytes_or_else, String::decode_bencode_object: the content of the byte
\* string at pos, None for any other token
BytesAt(B, pos) ==
    IF pos <= Len(B) /\ IsDigit(B[pos]) /\ ValueEnd(B, pos) # 0
    THEN Some(SubSeq(B, DigitsEnd(B, pos) + 1, ValueEnd(B, pos)))
    ELSE None

\* i32::decode_bencode_object: the integer at pos, None for any other token
IntAt(B, pos) ==
    IF pos <= Len(B) /\ B[pos] = 105 /\ ValueEnd(B, pos) # 0
    THEN LET neg == B[pos + 1] = 45
             n   == NatValue(B, IF neg THEN pos + 2 ELSE pos + 1, ValueEnd(B, pos))
         IN  Some(IF neg THEN 0 - n ELSE n)
    ELSE None

RECURSIVE StringsFrom(_, _)
\* the strings of a list whose next item starts at pos
StringsFrom(B, pos) ==
    IF pos > Len(B) THEN None
    ELSE IF B[pos] = 101 THEN Some(<<>>)
    ELSE IF BytesAt(B, pos) = None THEN None
    ELSE LET rest == StringsFrom(B, ValueEnd(B, pos) + 1)
         IN  IF rest = None THEN None ELSE Some(<<BytesAt(B, pos)[1]>> \o rest[1])

\* Vec::<String>::decode_bencode_object: the list of strings at pos
StringsAt(B, pos) ==
    IF pos <= Len(B) /\ B[pos] = 108 THEN StringsFrom(B, pos + 1) ELSE None

\* field = Some(value)
SetField(acc, field, v) == [acc EXCEPT ![field] = v]

NoMetadata == [pieces |-> None, piece_length |-> None, length |-> None, name |-> None]

RECURSIVE MetadataPairs(_, _, _)
\* TorrentMetadata: while let Some(pair) = decoder.next_pair()? { match pair .. }
\* with the next pair at pos
MetadataPairs(B, pos, acc) ==
    IF pos > Len(B) THEN Err
    ELSE IF B[pos] = 101 THEN Ok(acc)
    ELSE LET key == BytesAt(B, pos) IN
    IF key = None THEN Err
    ELSE LET v    == ValueEnd(B, pos) + 1
             next == ValueEnd(B, v) + 1
             Field(field, got) ==
                 IF got = None THEN Err
                 ELSE MetadataPairs(B, next, SetField(acc, field, got))
         IN  IF key[1] = KeyPieces THEN Field("pieces", BytesAt(B, v))
             ELSE IF key[1] = KeyPieceLength THEN Field("piece_length", IntAt(B, v))
             ELSE IF key[1] = KeyLength THEN Field("length", IntAt(B, v))
             ELSE IF key[1] = KeyName THEN Field("name", BytesAt(B, v))
             ELSE Err                                   \* unexpected_field

\* the fields are unwrapped with ok_or_else(missing_field)?
Unwrapped(acc) ==
    IF \E f \in DOMAIN acc : acc[f] = None THEN Err
    ELSE Ok([f \in DOMAIN acc |-> acc[f][1]])

\* TorrentMetadata::from_bencode
TorrentMetadata_decode_bencode_object(B) ==
    IF Len(B) = 0 \/ B[1] # 100 THEN Err               \* try_into_dictionary()?
    ELSE LET r == MetadataPairs(B, 2, NoMetadata)
         IN  IF r.ok THEN Unwrapped(r.value) ELSE r

\* the SHA-1 digest, as a function of the bytes it is taken of
Sha1(bytes) == [sha1_of |-> bytes]

\* the dictionary without its opening 'd' and closing 'e'
dictionary_items(info_bytes) == SubSeq(info_bytes, 2, Len(info_bytes) - 1)

\* hasher.update(info_bytes): the bytes the digest is taken of
hasher_update(info_bytes) == info_bytes

NoInfo ==
    [announce |-> None, comment |-> None, creation_date |-> None, created_by |-> None,
     url_list |-> None, info |-> None, info_hash |-> None]

RECURSIVE InfoPairs(_, _, _)
\* TorrentInfo: while let Some(pair) = dict.next_pair()? { match pair .. } with
\* the next pair at pos
InfoPairs(B, pos, acc) ==
    IF pos > Len(B) THEN Err
    ELSE IF B[pos] = 101 THEN Ok(acc)
    ELSE LET key == BytesAt(B, pos) IN
    IF key = None THEN Err
    ELSE LET v    == ValueEnd(B, pos) + 1
             next == ValueEnd(B, v) + 1
             Field(field, got) ==
                 IF got = None THEN Err
                 ELSE InfoPairs(B, next, SetField(acc, field, got))
         IN  IF key[1] = KeyAnnounce THEN Field("announce", BytesAt(B, v))
             ELSE IF key[1] = KeyComment THEN Field("comment", BytesAt(B, v))
             ELSE IF key[1] = KeyCreationDate THEN Field("creation_date", IntAt(B, v))
             ELSE IF key[1] = KeyCreatedBy THEN Field("created_by", BytesAt(B, v))
             ELSE IF key[1] = KeyUrlList THEN Field("url_list", StringsAt(B, v))
             ELSE IF key[1] = KeyInfo
             THEN IF v > Len(B) THEN Err                \* next_pair()?: no value
                  ELSE IF B[v] # 100 THEN Panic         \* dictionary_or_else(..).unwrap()
                  ELSE IF ValueEnd(B, v) = 0 THEN Panic \* into_raw().unwrap()
                  ELSE LET info_bytes == SubSeq(B, v, ValueEnd(B, v))
                           decoded == TorrentMetadata_decode_bencode_object(info_bytes)
                       IN  IF ~decoded.ok THEN decoded
                           ELSE InfoPairs(B, next,
                                    [acc EXCEPT !.info = Some(decoded.value),
                                                !.info_hash = Some(Sha1(hasher_update(info_bytes)))])
             ELSE Err                                   \* unexpected_field

\* TorrentInfo::from_bencode
TorrentInfo_decode_bencode_object(B) ==
    IF Len(B) = 0 \/ B[1] # 100 THEN Err               \* try_into_dictionary()?
    ELSE LET r == InfoPairs(B, 2, NoInfo)
         IN  IF r.ok THEN Unwrapped(r.value) ELSE r

---------------------------------------------------------------------------
\* SpecMetainfo: metainfo files are written from a description and decoded.

\* b"encoding", a key the decoder has no arm for
KeyEncoding == <<101, 110, 99, 111, 100, 105, 110, 103>>

OptionalKeys == {"comment", "creation date", "created by", "url-list"}
InfoKeys == {"length", "name", "piece length", "pieces"}

\* the descriptions of the files: which keys the file has, what the info value
\* is, which key of info is left out, the length of pieces and the piece
\* length, and how many bytes are cut off the end of the file
MetaInputs ==
    LET Files(infos) ==
            {[optional |-> o, announce |-> a, extra |-> x, info |-> i.info,
              missing |-> i.missing, pieces_len |-> i.pieces_len,
              piece_length |-> i.piece_length, cut |-> c] :
                 o \in SUBSET OptionalKeys, a \in BOOLEAN, x \in BOOLEAN,
                 i \in infos, c \in {0, 1, 2}}
        Dicts == [info : {"dict"}, missing : {"none"} \cup InfoKeys,
                  pieces_len : {19, 20}, piece_length : {0 - 1, 0, 2}]
        Others == [info : {"int", "none"}, missing : {"none"},
                   pieces_len : {20}, piece_length : {2}]
    IN  Files(Dicts \cup Others)

\* a bencoded byte string and a bencoded integer
Bstr(s) == Decimal(Len(s)) \o <<58>> \o s
Bint(n) == <<105>> \o to_string(n) \o <<101>>

\* a key and its value, or nothing when the file does not have the key
Pair(present, key, value) == IF present THEN Bstr(key) \o value ELSE <<>>

\* the info value of the file
InfoPart(d) ==
    IF d.info = "none" THEN <<>>
    ELSE IF d.info = "int" THEN Bint(7)
    ELSE <<100>>
         \o Pair(d.missing # "length", KeyLength, Bint(2))
         \o Pair(d.missing # "name", KeyName, Bstr(<<101, 100, 101>>))
         \o Pair(d.missing # "piece length", KeyPieceLength, Bint(d.piece_length))
         \o Pair(d.missing # "pieces", KeyPieces, Bstr([k \in 1..d.pieces_len |-> k]))
         \o <<101>>

\* the bytes of the file before its info value
FilePrefix(d) ==
    <<100>>
    \o Pair(d.announce, KeyAnnounce, Bstr(TrackerUrl))
    \o Pair("comment" \in d.optional, KeyComment, Bstr(<<99>>))
    \o Pair("created by" \in d.optional, KeyCreatedBy, Bstr(<<109, 101>>))
    \o Pair("creation date" \in d.optional, KeyCreationDate, Bint(5))
    \o Pair(d.extra, KeyEncoding, Bstr(<<120>>))
    \o Pair(d.info # "none", KeyInfo, <<>>)

\* the bytes of the file after its info value
FileSuffix(d) ==
    Pair("url-list" \in d.optional, KeyUrlList, <<108>> \o Bstr(TrackerUrl) \o <<101>>)
    \o <<101>>

FileBytes(d) ==
    LET whole == FilePrefix(d) \o InfoPart(d) \o FileSuffix(d)
    IN  SubSeq(whole, 1, Len(whole) - d.cut)

\* TorrentInfo::from_bencode(&file)
FromBencode ==
    /\ meta_out = None
    /\ meta_out' = Some(TorrentInfo_decode_bencode_object(meta_bytes))
    /\ UNCHANGED <<stateVars, callVars, schedVars, msgVars, hsVars, annVars, idVars,
                   meta_input, meta_bytes>>

InitMetainfo ==
    /\ IdleState /\ InitCall /\ IdleSched /\ IdleMsg /\ IdleHs /\ IdleAnn /\ IdleId
    /\ meta_input \in MetaInputs
    /\ meta_bytes = FileBytes(meta_input)
    /\ meta_out = None

NextMetainfo == FromBencode

SpecMetainfo == InitMetainfo /\ [][NextMetainfo]_vars

\* the required keys are present and well-formed in the file written from d
RequiredKeysWellFormed(d) ==
    /\ d.cut = 0
    /\ d.announce
    /\ d.info = "dict"
    /\ d.missing = "none"
    /\ d.pieces_len % 20 = 0
    /\ d.piece_length > 0

\* C11: decoding returns a torrent exactly when the required keys (announce,
\* info with pieces, piece length, length, name) are present and well-formed,
\* whether or not comment, creation date, created by, url-list are present; in
\* every other case (a required key missing, malformed bencode, a length of
\* pieces that is no multiple of 20, a piece length that is not positive) it
\* returns an error value and does not abort.
C11_DecodeContract ==
    meta_out # None =>
        IF RequiredKeysWellFormed(meta_input)
        THEN /\ meta_out[1].ok
             /\ meta_out[1].value.announce = TrackerUrl
             /\ meta_out[1].value.info.piece_length = meta_input.piece_length
             /\ Len(meta_out[1].value.info.pieces) = meta_input.pieces_len
        ELSE meta_out[1] = Err

\* the positions of the first and the last byte of the info value in the file
InfoStart(d) == Len(FilePrefix(d)) + 1
InfoEnd(d) == Len(FilePrefix(d)) + Len(InfoPart(d))

\* C12: whenever a file B decodes to a torrent, its info_hash is the SHA-1 of
\* the bytes of B from the opening 'd' of the info value to its matching 'e',
\* both included.
C12_InfoHashOfRawBytes ==
    (meta_out # None /\ meta_out[1].ok) =>
        /\ meta_bytes[InfoStart(meta_input)] = 100
        /\ meta_bytes[InfoEnd(meta_input)] = 101
        /\ meta_out[1].value.info_hash
               = Sha1(SubSeq(meta_bytes, InfoStart(meta_input), InfoEnd(meta_input)))

\* a file with every key, url-list after info, has been decoded to a torrent
C12_Witness ==
    /\ meta_out # None
    /\ meta_out[1].ok
    /\ meta_input.optional = OptionalKeys
    /\ InfoEnd(meta_input) < Len(meta_bytes) - 1
    /\ meta_out[1].value.info_hash = Sha1(InfoPart(meta_input))

=============================================================================
